---------------------------- MODULE Spec2Model ----------------------------
(***************************************************************************)
(* Verification model of trignoclient: the deadline transport              *)
(* (std::tcp_client), the protocol session (trigno::network::Interface),   *)
(* the sequence with its recorder / exporter processors and the execution  *)
(* engine (std::basic_executor, std::basic_timed_executor, Iterative<>),   *)
(* the data client with its frame decoder, Interface::waitFor and the      *)
(* look-up by time stamp of std::sorted_indexer.                           *)
(*                                                                         *)
(* Each subsystem has its own variables, actions and specification; a      *)
(* specification leaves the variables of the other subsystems unchanged.   *)
(***************************************************************************)
EXTENDS Integers, Sequences, FiniteSets, TLC

(***************************************************************************)
(* Bounds of the model.                                                    *)
(***************************************************************************)
\* largest timeout (in clock ticks) a caller passes to a transport operation
MaxTimeout == 2
\* number of queries / commands issued on one session
MaxQueries == 2
\* number of frames the recorder appends to the sequence
MaxFrames == 3
\* number of execute() calls one run of the engine may perform
MaxExec == 2
\* number of run() / launch() calls issued on one engine
MaxRuns == 2
\* largest max_attempts passed to Interface::waitFor
MaxAttempts == 2
\* number of 4-byte values in the receive buffer of a data client
BufferLen == 3

VARIABLES
    \* ---- std::tcp_client ------------------------------------------------
    socket,     \* _socket: "closed", "open" (opened, not connected), "connected"
    error,      \* _error
    timer,      \* _timer: ticks left until expiry, Infinite when disarmed
    waiting,    \* TRUE while an async_wait(check_timeout) is outstanding on _timer
    io,         \* _io: handlers ready to be invoked by run_one(), in order
    pending,    \* asynchronous socket operations that have not completed yet
    call,       \* the transport call in progress on the calling thread
    last,       \* outcome of the last completed transport call
    peer,       \* "responsive" or "silent" (never answers any more)
    dis,        \* what the last disconnect() found and what it left
    \* ---- trigno::network::Interface --------------------------------------
    wire,       \* requests written to the device and not answered yet
    inbox,      \* bytes the device sent that the session has not read yet
    thread,     \* position of each thread inside Interface::query()
    issued,     \* number of queries / commands issued so far
    log,        \* completed queries: request id and response returned
    wf,         \* the call of Interface::waitFor in progress or finished last
    \* ---- std::sorted_indexer (key lookup) --------------------------------
    lookup,     \* the last call of find() / range() on the Sequence and its result
    \* ---- trigno::Sample, EMGDataClient / AUXDataClient::buildFrame --------
    decoded,    \* the last call of buildFrame(): buffer, configuration and the Frame built
    \* ---- trigno::Sequence, Recorder, Exporter ----------------------------
    data,       \* Sequence::_data: the stored frames, each with its time stamp (key)
    added,      \* the last call of Sequence::add
    appended,   \* number of frames appended so far
    rec,        \* Recorder::execute position
    expo,       \* Exporter::execute position
    range,      \* Range held by a reading processor
    iter,       \* Iterative<Processor> run over the sequence
    \* ---- std::basic_executor / basic_timed_executor ----------------------
    kind,       \* "base", "loop" or "timed"
    kill,       \* _kill
    done,       \* _done: 0 when not valid, else the launched task it refers to
    elapsed,    \* _elapsed: state of the future holding the timer run
    ioctx,      \* basic_timed_executor::_io / _timer
    loop,       \* the runs of the engine: one record per run()
    ctl,        \* the controlling thread
    aux,        \* a second thread that may call kill()
    \* ---- trigno::network::BasicDataClient --------------------------------
    frame_idx,  \* _frame_idx
    sample_rate,\* _sample_rate (Hz), 0 until reset() has read the configuration
    client      \* connection of the data client and its last call

varsT == <<socket, error, timer, waiting, io, pending, call, last, peer>>
varsS == <<wire, inbox, thread, issued, log>>
varsQ == <<data, added, appended, rec, expo, range, iter>>
varsE == <<kind, kill, done, elapsed, ioctx, loop, ctl, aux>>
varsD == <<frame_idx, sample_rate, client>>
varsF == <<wf>>
varsL == <<lookup>>
varsG == <<dis>>
varsB == <<decoded>>
vars == <<varsT, varsS, varsQ, varsE, varsD, varsF, varsL, varsG, varsB>>

\* what an action of one subsystem leaves alone
othersT == <<varsS, varsQ, varsE, varsD, varsF, varsL, varsG, varsB>>
othersS == <<varsT, varsQ, varsE, varsD, varsF, varsL, varsG, varsB>>
othersQ == <<varsT, varsS, varsE, varsD, varsF, varsL, varsG, varsB>>
othersE == <<varsT, varsS, varsQ, varsD, varsF, varsL, varsG, varsB>>
othersD == <<varsT, varsS, varsQ, varsE, varsF, varsL, varsG, varsB>>
othersF == <<varsT, varsS, varsQ, varsE, varsD, varsL, varsG, varsB>>
othersL == <<varsT, varsS, varsE, varsD, varsF, varsG, varsB>>
othersG == <<varsS, varsQ, varsE, varsD, varsF, varsL, varsB>>
othersB == <<varsT, varsS, varsQ, varsE, varsD, varsF, varsL, varsG>>

(***************************************************************************)
(* Generic helpers.                                                        *)
(***************************************************************************)
Min(a, b) == IF a <= b THEN a ELSE b
Max(a, b) == IF a >= b THEN a ELSE b


(***************************************************************************)
(*                    std::tcp_client (deadline transport)                 *)
(***************************************************************************)
\* value of _timer after reset() without argument (duration::max())
Infinite == MaxTimeout + 1
Timeouts == 1..MaxTimeout

\* handler bound to the timer by _timer.async_wait(): tcp_client::check_timeout
TimerHandler == [h |-> "timer", ec |-> "success", own |-> FALSE]

\* completion handler of an asynchronous socket operation, as queued in _io
Handler(op, ec, own) == [h |-> op, ec |-> ec, own |-> own]

\* closing the socket completes every outstanding operation with operation_aborted
Aborted(ops) ==
    [i \in 1..Len(ops) |-> Handler(ops[i].h, "operation_aborted", ops[i].own)]

\* handlers and operations left behind by a call that has returned
Stale(q) == [i \in 1..Len(q) |-> [q[i] EXCEPT !.own = FALSE]]

\* _timer.expires_from_now() cancels the outstanding wait: its handler is invoked
\* (queued) with operation_aborted, which check_timeout() does not look at
ResetIo == IF waiting THEN Append(io, TimerHandler) ELSE io

\* socket::is_open()
is_connected == socket # "closed"

ConnectPending == \E i \in 1..Len(pending) : pending[i].h = "connect"

Idle == [state |-> "idle", op |-> "none", timeout |-> 0, spent |-> 0, silent |-> FALSE,
         late |-> FALSE, closed |-> FALSE]

\* a call enters tcp_client; late: the deadline of the operation that returned
\* before it has passed meanwhile; closed: the socket is closed as it begins
BeginCall(op, t) ==
    [state |-> "run", op |-> op, timeout |-> t, spent |-> 0, silent |-> (peer = "silent"),
     late |-> (timer = 0 /\ last.result = "returned"), closed |-> (socket = "closed")]

\* the call in progress leaves tcp_client: by return or by exception; lapsed
\* tells that this call or one before it ended by the timeout
Return(res, open, own) ==
    /\ call' = Idle
    /\ last' = [op |-> call.op, result |-> res, silent |-> call.silent, open |-> open,
                own |-> own, spent |-> call.spent, timeout |-> call.timeout,
                late |-> call.late, closed |-> call.closed,
                lapsed |-> (last.lapsed \/ res = "timed_out")]

\* the check after run(): if (_error || !_socket.is_open()) throw system_error
Outcome(ec, open) ==
    IF ec # "success" \/ ~open THEN "system_error" ELSE "returned"

\* tcp_client::connect: reset(timeout); async_connect(); run()
tcp_connect(t) ==
    /\ call.state = "idle"
    /\ timer' = t
    /\ waiting' = FALSE
    /\ error' = "would_block"
    \* async_connect closes the socket (aborting what is outstanding) and opens it
    /\ io' = ResetIo \o Aborted(pending)
    /\ socket' = "open"
    /\ pending' = <<[h |-> "connect", own |-> TRUE]>>
    /\ call' = BeginCall("connect", t)
    /\ UNCHANGED <<last, peer, othersT>>

\* an operation started on a closed socket that stays outstanding instead of
\* completing at once with bad_descriptor
StartIO_outstanding(op, t) ==
    /\ call.state = "idle"
    /\ timer' = t
    /\ waiting' = FALSE
    /\ error' = "would_block"
    /\ io' = ResetIo
    /\ pending' = Append(pending, [h |-> op, own |-> TRUE])
    /\ call' = BeginCall(op, t)
    /\ UNCHANGED <<socket, last, peer, othersT>>

\* reset(timeout) and start of async_read / async_read_until / async_write
StartIO(op, t) ==
    /\ call.state = "idle"
    /\ timer' = t
    /\ waiting' = FALSE
    /\ error' = "would_block"
    /\ IF socket = "closed"
         THEN /\ io' = Append(ResetIo, Handler(op, "bad_descriptor", TRUE))
              /\ pending' = pending
         ELSE IF socket = "open" /\ ~ConnectPending
                THEN /\ io' = Append(ResetIo, Handler(op, "not_connected", TRUE))
                     /\ pending' = pending
                ELSE /\ io' = ResetIo
                     /\ pending' = Append(pending, [h |-> op, own |-> TRUE])
    /\ call' = BeginCall(op, t)
    /\ UNCHANGED <<socket, last, peer, othersT>>

\* tcp_client::read(buffer, timeout)
tcp_read(t) == StartIO("read", t)

\* tcp_client::read_until(stop, buffer, timeout)
tcp_read_until(t) == StartIO("until", t)

\* tcp_client::write(buffer, timeout)
tcp_write(t) == StartIO("write", t)

\* tcp_client::check_timeout with the deadline passed: close, reset(), throw timed_out
check_timeout_expired ==
    /\ socket' = "closed"
    /\ io' = Stale(Tail(io) \o Aborted(pending))
    /\ pending' = <<>>
    /\ timer' = Infinite
    /\ error' = "would_block"
    /\ waiting' = waiting
    /\ Return("timed_out", FALSE, TRUE)

\* tcp_client::check_timeout with the deadline ahead: wait on the timer again
check_timeout_rearm ==
    /\ waiting' = TRUE
    /\ UNCHANGED <<socket, pending, timer, error>>
    /\ IF error = "would_block"
         THEN /\ io' = Tail(io)
              /\ UNCHANGED <<call, last>>
         ELSE /\ io' = Stale(Tail(io))
              /\ Return(Outcome(error, is_connected), is_connected, FALSE)

\* check_timeout taking every call of the handler for the expiry, without the
\* comparison of _timer.expires_at() with now()
check_timeout_unchecked ==
    check_timeout_expired

\* tcp_client::check_timeout
check_timeout ==
    IF timer = 0 THEN check_timeout_expired ELSE check_timeout_rearm

\* tcp_client::handle_connect / handle_read: _error = error; check_status()
\* and, for read_until / write, the lambda _error = _1 followed by the exit of run()
handle_io(hd) ==
    /\ error' = hd.ec
    /\ io' = Stale(Tail(io))
    /\ pending' = Stale(pending)
    /\ Return(Outcome(hd.ec, is_connected), is_connected, hd.own)
    /\ UNCHANGED <<socket, timer, waiting>>

\* tcp_client::run: one _io.run_one() and the test of the loop
tcp_run_one ==
    /\ call.state = "run"
    /\ io # <<>>
    /\ IF Head(io).h = "timer" THEN check_timeout ELSE handle_io(Head(io))
    /\ UNCHANGED <<peer, othersT>>

\* the deadline of _timer passes: the wait completes and its handler is ready
tcp_timer_expire ==
    /\ waiting
    /\ timer = 0
    /\ waiting' = FALSE
    /\ io' = Append(io, TimerHandler)
    /\ UNCHANGED <<socket, error, timer, pending, call, last, peer, othersT>>

\* the peer completes the oldest outstanding operation, with success or with a failure
tcp_complete(ec) ==
    /\ peer = "responsive"
    /\ pending # <<>>
    /\ ec \in {"success", "eof"}
    /\ (ec = "success" /\ Head(pending).h # "connect") => socket = "connected"
    /\ io' = Append(io, Handler(Head(pending).h, ec, Head(pending).own))
    /\ pending' = Tail(pending)
    /\ socket' = IF Head(pending).h = "connect" /\ ec = "success" THEN "connected" ELSE socket
    /\ UNCHANGED <<error, timer, waiting, call, last, peer, othersT>>

\* the state a disconnect() leaves: socket closed, timer disarmed, no wait and no
\* socket operation outstanding
Disconnected == socket = "closed" /\ timer = Infinite /\ ~waiting /\ pending = <<>>

\* again: the call found the Transport disconnected; kept: it left the socket, the
\* timer, the handlers and the outstanding operations as they were; same: it
\* left _error as it was; error: the value it left in _error
NoDisconnect == [again |-> FALSE, raised |-> FALSE, kept |-> TRUE, same |-> TRUE, error |-> "none"]

\* tcp_client::disconnect with _socket.shutdown(both), the overload that throws
tcp_disconnect_throwing ==
    /\ call.state = "idle"
    /\ timer' = Infinite
    /\ waiting' = FALSE
    /\ io' = Stale(ResetIo \o Aborted(pending))
    /\ pending' = IF socket = "connected" THEN <<>> ELSE pending
    /\ error' = IF socket = "connected" THEN "success" ELSE "would_block"
    /\ socket' = IF socket = "connected" THEN "closed" ELSE socket
    /\ dis' = IF Disconnected
                THEN [again |-> TRUE, raised |-> TRUE,
                      kept |-> (<<socket, timer, waiting, io, pending>>' =
                                <<socket, timer, waiting, io, pending>>),
                      same |-> (error' = error), error |-> error']
                ELSE NoDisconnect
    /\ UNCHANGED <<call, last, peer, othersG>>

\* tcp_client::disconnect: reset(); _socket.shutdown(both, _error); _socket.close().
\* shutdown reports through _error and close() on a closed socket does nothing:
\* nothing is thrown
tcp_disconnect ==
    /\ call.state = "idle"
    /\ timer' = Infinite
    /\ waiting' = FALSE
    /\ io' = Stale(ResetIo \o Aborted(pending))
    /\ pending' = <<>>
    /\ error' = CASE socket = "connected" -> "success"
                  [] socket = "open" -> "not_connected"
                  [] OTHER -> "bad_descriptor"
    /\ socket' = "closed"
    /\ dis' = IF Disconnected
                THEN [again |-> TRUE, raised |-> FALSE,
                      kept |-> (<<socket, timer, waiting, io, pending>>' =
                                <<socket, timer, waiting, io, pending>>),
                      same |-> (error' = error), error |-> error']
                ELSE NoDisconnect
    /\ UNCHANGED <<call, last, peer, othersG>>

\* a handler is ready while the caller is inside run(), or the deadline has passed
Urgent == (call.state = "run" /\ io # <<>>) \/ (waiting /\ timer = 0)

\* one tick of the clock
tcp_tick ==
    /\ ~Urgent
    /\ timer \in 1..MaxTimeout \/ (call.state = "run" /\ call.spent <= MaxTimeout)
    /\ timer' = IF timer \in 1..MaxTimeout THEN timer - 1 ELSE timer
    /\ call' = IF call.state = "run"
                 THEN [call EXCEPT !.spent = Min(call.spent + 1, MaxTimeout + 1)]
                 ELSE call
    /\ UNCHANGED <<socket, error, waiting, io, pending, last, peer, othersT>>

\* the peer stops answering for good
peer_silent ==
    /\ peer = "responsive"
    /\ call.state = "idle"
    /\ peer' = "silent"
    /\ UNCHANGED <<socket, error, timer, waiting, io, pending, call, last, othersT>>

\* tcp_client::tcp_client: reset(); check_timeout()
InitT ==
    /\ socket = "closed"
    /\ error = "would_block"
    /\ timer = Infinite
    /\ waiting = TRUE
    /\ io = <<>>
    /\ pending = <<>>
    /\ call = Idle
    /\ last = [op |-> "none", result |-> "none", silent |-> FALSE, open |-> FALSE,
               own |-> TRUE, spent |-> 0, timeout |-> 0, late |-> FALSE, closed |-> FALSE,
               lapsed |-> FALSE]
    /\ peer \in {"responsive", "silent"}
    /\ dis = NoDisconnect

NextT ==
    \/ \E t \in Timeouts : tcp_connect(t)
    \/ \E t \in Timeouts : tcp_read(t)
    \/ \E t \in Timeouts : tcp_read_until(t)
    \/ \E t \in Timeouts : tcp_write(t)
    \/ tcp_run_one
    \/ tcp_timer_expire
    \/ \E ec \in {"success", "eof"} : tcp_complete(ec)
    \/ tcp_disconnect
    \/ tcp_tick
    \/ peer_silent


(***************************************************************************)
(*               trigno::network::Interface (protocol session)             *)
(***************************************************************************)
CR == 13
LF == 10
NUL == 0

\* the byte that tells the reply to request k from the other replies
Payload(k) == 64 + k

\* the stop sequence Interface::query appends to the text it writes
stop == <<CR, LF, CR, LF>>

\* what the device sends in answer to request k: its text and the termination
Reply(k) == <<Payload(k)>> \o stop

Threads == {"main", "task"}

\* position of the first delimiter in a byte sequence, 0 when there is none
FirstLF(q) ==
    IF \E i \in 1..Len(q) : q[i] = LF
      THEN CHOOSE i \in 1..Len(q) : q[i] = LF /\ \A j \in 1..(i - 1) : q[j] # LF
      ELSE 0

\* Interface::query: the response taken from the buffer read_until() returned,
\* <<>> when the test fails and *response is left as it was (empty)
Strip(buffer) ==
    IF /\ Len(buffer) > 4
       /\ buffer[Len(buffer) - 3] # NUL
       /\ buffer[Len(buffer)] = LF
      THEN SubSeq(buffer, 1, Len(buffer) - 4)
      ELSE <<>>

\* the reply 'INVALID COMMAND' / 'CANNOT COMPLETE': a text that answers no request
InvalidCommand == Payload(0)

\* what the Transport hands to Interface::query: a return or one of its two throws
Raises == {"timed_out", "system_error"}

\* Interface::command with every exception caught, not boost::system::system_error alone
Observed_catch_all(k, res, response, id) ==
    CASE res = "returned" /\ k = "query" -> "response"
      [] res = "returned" /\ k = "command" ->
             IF response = <<Payload(id)>> THEN "true" ELSE "false"
      [] res = "returned" /\ k = "fire" -> "true"
      [] res # "returned" /\ k = "query" -> res
      [] OTHER -> "false"

\* what the caller of Interface::query (k = "query") or of Interface::command sees.
\* query catches nothing; command compares the response with success_response and
\* catches boost::system::system_error, which the timed_out thrown by
\* tcp_client::check_timeout is not.
Observed(k, res, response, id) ==
    CASE res = "returned" /\ k = "query" -> "response"
      [] res = "returned" /\ k = "command" ->
             IF response = <<Payload(id)>> THEN "true" ELSE "false"
      [] res = "returned" /\ k = "fire" -> "true"
      [] res = "timed_out" -> "timed_out"
      [] res = "system_error" /\ k = "query" -> "system_error"
      [] OTHER -> "false"

\* one finished call of query / command
Entry(id, k, res, response) ==
    [id |-> id, kind |-> k, response |-> response, raised |-> res,
     observed |-> Observed(k, res, response, id)]

\* Interface::command reading a response whatever success_response is
query_write_reading(t, k) ==
    /\ thread[t].pc = "idle"
    /\ t = "task" => k = "query"
    /\ issued < MaxQueries
    /\ issued' = issued + 1
    /\ wire' = Append(wire, issued + 1)
    /\ thread' = [thread EXCEPT ![t] = [pc |-> "wrote", id |-> issued + 1, kind |-> k]]
    /\ log' = log
    /\ UNCHANGED <<inbox, othersS>>

\* Interface::query, first half: _network.write(query + stop, timeout)
query_write(t, k) ==
    /\ thread[t].pc = "idle"
    /\ t = "task" => k = "query"
    /\ issued < MaxQueries
    /\ issued' = issued + 1
    /\ wire' = Append(wire, issued + 1)
    /\ IF k = "fire"
         \* Interface::command with an empty success_response: response == nullptr
         THEN /\ thread' = thread
              /\ log' = Append(log, Entry(issued + 1, k, "returned", <<>>))
         ELSE /\ thread' = [thread EXCEPT ![t] = [pc |-> "wrote", id |-> issued + 1, kind |-> k]]
              /\ log' = log
    /\ UNCHANGED <<inbox, othersS>>

\* Interface::query, second half: buffer = _network.read_until('\n', timeout).
\* read_until returns once the buffer holds a delimiter; what it has read by then
\* is any prefix of the received bytes that reaches the first delimiter.
query_read(t, n) ==
    /\ thread[t].pc = "wrote"
    /\ FirstLF(inbox) > 0
    /\ n \in FirstLF(inbox)..Len(inbox)
    /\ inbox' = SubSeq(inbox, n + 1, Len(inbox))
    /\ log' = Append(log, Entry(thread[t].id, thread[t].kind, "returned",
                                Strip(SubSeq(inbox, 1, n))))
    /\ thread' = [thread EXCEPT ![t] = [pc |-> IF t = "task" THEN "off" ELSE "idle",
                                         id |-> 0, kind |-> "none"]]
    /\ UNCHANGED <<wire, issued, othersS>>

\* Interface::query left by what _network.write (pc idle) or _network.read_until
\* (pc wrote) throws
query_raise(t, k, res) ==
    /\ thread[t].pc \in {"idle", "wrote"}
    /\ thread[t].pc = "wrote" => k = thread[t].kind
    /\ (thread[t].pc = "idle" /\ t = "task") => k = "query"
    /\ thread[t].pc = "idle" => issued < MaxQueries
    /\ issued' = IF thread[t].pc = "idle" THEN issued + 1 ELSE issued
    /\ log' = Append(log, Entry(IF thread[t].pc = "idle" THEN issued + 1 ELSE thread[t].id,
                                k, res, <<>>))
    /\ thread' = [thread EXCEPT ![t] = [pc |-> IF t = "task" THEN "off" ELSE "idle",
                                         id |-> 0, kind |-> "none"]]
    /\ UNCHANGED <<wire, inbox, othersS>>

\* Interface::schedule: std::async(sleep_for(delay); query(query, timeout))
schedule ==
    /\ thread["main"].pc = "idle"
    /\ thread["task"].pc = "off"
    /\ issued < MaxQueries
    /\ thread' = [thread EXCEPT !["task"] = [pc |-> "idle", id |-> 0, kind |-> "none"]]
    /\ UNCHANGED <<wire, inbox, issued, log, othersS>>

\* the device answers the oldest request it has received, with its reply or
\* with 'INVALID COMMAND'
device_reply(valid) ==
    /\ wire # <<>>
    /\ inbox' = inbox \o (IF valid THEN Reply(Head(wire)) ELSE <<InvalidCommand>> \o stop)
    /\ wire' = Tail(wire)
    /\ UNCHANGED <<thread, issued, log, othersS>>

InitS ==
    /\ wire = <<>>
    /\ inbox = <<>>
    /\ thread = [t \in Threads |-> [pc |-> IF t = "main" THEN "idle" ELSE "off",
                                     id |-> 0, kind |-> "none"]]
    /\ issued = 0
    /\ log = <<>>

NextS ==
    \/ \E t \in Threads, k \in {"query", "command", "fire"} : query_write(t, k)
    \/ \E t \in Threads, n \in 1..Len(inbox) : query_read(t, n)
    \/ \E t \in Threads, k \in {"query", "command", "fire"}, res \in Raises :
           query_raise(t, k, res)
    \/ schedule
    \/ \E valid \in BOOLEAN : device_reply(valid)


(***************************************************************************)
(*        trigno::Sequence, tools::Recorder, tools::Exporter, Iterative<>  *)
(***************************************************************************)
\* std::range_iterator as sorted_indexer constructs it: (&_data, pos, width, overlap)
Range(pos, width, overlap) == [pos |-> pos, width |-> width, overlap |-> overlap]

NoRange == [pos |-> 0, width |-> 0, overlap |-> 0]

\* sorted_indexer::begin(width, overlap): n = width > size() ? size() : width
begin(width, overlap) == Range(0, Min(width, Len(data)), overlap)

\* range_iterator::operator+ : the start moves by step - overlap and stays inside
\* the container
RangeAdd(r, step, size) ==
    [r EXCEPT !.pos = Max(0, Min(r.pos + step - Min(r.overlap, Max(r.width - 1, 0)), size))]

\* range_iterator::size(): the width, clamped to what remains of the container
RangeSize(r, size) == Max(0, Min(r.width, size - r.pos))

\* the positions [first, last) removed from a sequence, clamped to its length
Erase(q, from, to) ==
    SubSeq(q, 1, Min(from, Len(q))) \o SubSeq(q, Min(to, Len(q)) + 1, Len(q))

\* the sensor lists a frame can hold
SensorSets == {{1}, {1, 2}}

AllSensors == {1, 2}

\* Frame::Stamped: a frame (here its sensor list) tagged with its time stamp
StampedFrame(time, sensors) == [key |-> time, sensors |-> sensors]

NotAdded == [rejectable |-> FALSE, raised |-> FALSE, kept |-> TRUE]

\* Sequence::add with the element put in place before the two checks
add_then_check(time, sensors, sequential, match_sensors) ==
    LET size == Len(data)
        raise == \/ sequential /\ size > 0 /\ time <= data[size].key
                 \/ match_sensors /\ size > 0 /\ data[size].sensors # sensors
    IN  /\ appended < MaxFrames
        /\ data' = Append(data, StampedFrame(time, sensors))
        /\ appended' = appended + 1
        /\ added' = [rejectable |-> raise, raised |-> raise, kept |-> (data' = data)]
        /\ UNCHANGED <<rec, expo, range, iter, othersQ>>

\* Sequence::add(time, frame, sequential, match_sensors): both checks throw
\* std::invalid_argument before _data.emplace_back
add(time, sensors, sequential, match_sensors) ==
    LET size == Len(data)
        raise == \/ sequential /\ size > 0 /\ time <= data[size].key
                 \/ match_sensors /\ size > 0 /\ data[size].sensors # sensors
    IN  /\ appended < MaxFrames
        /\ data' = IF raise THEN data ELSE Append(data, StampedFrame(time, sensors))
        /\ appended' = IF raise THEN appended ELSE appended + 1
        /\ added' = [rejectable |-> \/ sequential /\ data # <<>> /\ ~(time > data[Len(data)].key)
                                    \/ match_sensors /\ data # <<>>
                                           /\ sensors # data[Len(data)].sensors,
                      raised |-> raise, kept |-> (data' = data)]
        /\ UNCHANGED <<rec, expo, range, iter, othersQ>>

\* Recorder::execute: std::unique_lock lock(_mx), then the read from the data client
rec_lock ==
    /\ rec.pc = "idle"
    /\ ~rec.mx
    /\ appended < MaxFrames
    /\ rec' = [pc |-> "read", mx |-> TRUE]
    /\ UNCHANGED <<added, data, appended, expo, range, iter, othersQ>>

\* Recorder::execute: _data_client->read(sensors) has returned a frame
rec_read ==
    /\ rec.pc = "read"
    /\ rec' = [rec EXCEPT !.pc = "append"]
    /\ UNCHANGED <<added, data, appended, expo, range, iter, othersQ>>

\* Recorder::execute: (*_out) << frame (Sequence::operator<<), then the lock is released
rec_append ==
    /\ rec.pc = "append"
    /\ data' = Append(data, StampedFrame(appended + 1, AllSensors))
    /\ appended' = appended + 1
    /\ rec' = [pc |-> "idle", mx |-> FALSE]
    /\ UNCHANGED <<added, expo, range, iter, othersQ>>

\* Exporter::execute: trigno::save(_path, range, false, _delimiter)
expo_save(w) ==
    /\ expo.pc = "idle"
    /\ w \in 1..Len(data)
    /\ expo' = [expo EXCEPT !.pc = "save", !.r = begin(w, 0)]
    /\ UNCHANGED <<added, data, appended, rec, range, iter, othersQ>>

\* Exporter::execute: if (_data != nullptr) std::unique_lock lock(_mutex)
expo_lock ==
    /\ expo.pc = "save"
    /\ ~expo.mutex
    /\ expo' = [expo EXCEPT !.pc = "erase", !.mutex = TRUE]
    /\ UNCHANGED <<added, data, appended, rec, range, iter, othersQ>>

\* Exporter::execute: _data->erase(range.begin(), range.end()), then the lock is released
expo_erase ==
    /\ expo.pc = "erase"
    /\ data' = Erase(data, expo.r.pos, expo.r.pos + expo.r.width)
    /\ expo' = [pc |-> "idle", mutex |-> FALSE, r |-> NoRange]
    /\ UNCHANGED <<added, appended, rec, range, iter, othersQ>>

\* Sequence::discard(n_samples): pop_front() n_samples times
discard(n) ==
    /\ n \in 1..Len(data)
    /\ data' = SubSeq(data, n + 1, Len(data))
    /\ UNCHANGED <<added, appended, rec, expo, range, iter, othersQ>>

\* a reading processor takes a Range over the sequence: sorted_indexer::begin(width)
reader_range(w) ==
    /\ ~range.used
    /\ w \in 1..Len(data)
    /\ range' = [r |-> begin(w, 0), used |-> TRUE]
    /\ UNCHANGED <<added, data, appended, rec, expo, iter, othersQ>>

\* the reading processor is done with its Range
reader_release ==
    /\ range.used
    /\ range' = [r |-> NoRange, used |-> FALSE]
    /\ UNCHANGED <<added, data, appended, rec, expo, iter, othersQ>>

\* Iterative<Processor>::incrementable(range, step) for a step >= 0:
\* next = range + step; false when range == next or next.size() == 0
incrementable(r, step) ==
    LET next == RangeAdd(r, step, Len(data))
    IN  ~(r = next \/ RangeSize(next, Len(data)) = 0)

\* out is Filter::_out, the windows whose result has been appended to it; kill is
\* _kill, which the constructor of Iterative sets to false; after counts the
\* processing steps started with _kill set; seen holds the start of every window
\* handed to the processor, in order; at is the number of frames appended so
\* far when run() was called; exported holds the time stamps of the frames
\* written to the file of a consuming Exporter, in the order of the file
IterOff == [pc |-> "off", r |-> NoRange, step |-> 1, consuming |-> FALSE,
            stuck |-> FALSE, slept |-> 0, ret |-> "none", windows |-> 0, out |-> <<>>,
            kill |-> FALSE, after |-> 0, seen |-> <<>>, at |-> 0, exported |-> <<>>]

\* Iterative::run up to the loop: _range = range; start().  Iterative<Exporter>::start
\* sets _step = 0 when the exporter consumes its source (_data != nullptr); the
\* constructor leaves _step = 1 and step() may change it.  r is the Range the
\* caller passes: sequence.begin(width, overlap) or sequence.range(0, width, overlap).
iter_run(r, s, consuming) ==
    /\ iter.pc \in {"off", "done"}
    /\ ~iter.kill
    /\ iter' = [IterOff EXCEPT !.pc = "exec", !.r = r,
                               !.step = IF consuming THEN 0 ELSE s,
                               !.consuming = consuming,
                               !.at = appended,
                               !.exported = iter.exported]
    /\ UNCHANGED <<added, data, appended, rec, expo, range, othersQ>>

\* the time stamps of the frames inside a Range, as an iteration over it finds them
Window(r) == [i \in 1..RangeSize(r, Len(data)) |-> data[r.pos + i].key]

\* Exporter::execute inside the loop of a consuming Iterative<Exporter>, first
\* half: trigno::save(_path, range, false, _delimiter) appends the frames of the
\* window to the file.  No lock is held.
iter_save ==
    /\ iter.pc = "exec"
    /\ iter.consuming
    /\ iter' = [iter EXCEPT !.pc = "erase", !.exported = @ \o Window(iter.r)]
    /\ UNCHANGED <<added, data, appended, rec, expo, range, othersQ>>

\* Iterative::run, the loop body: _executor.run(std::move(_range), sensors), which
\* for a consuming Exporter ends with the erase of the window from its source,
\* _data->erase(range.begin(), range.end()) under Exporter::_mutex; then
\* _range += _step.
\* The loop calls the member processor's run(), never this->execute(): the
\* override Filter::execute, the one place that appends to _out, is not reached.
iter_execute ==
    /\ iter.pc = IF iter.consuming THEN "erase" ELSE "exec"
    /\ data' = IF iter.consuming
               THEN Erase(data, iter.r.pos, iter.r.pos + RangeSize(iter.r, Len(data)))
               ELSE data
    /\ iter' = [iter EXCEPT !.pc = "active",
                            !.r = RangeAdd(iter.r, iter.step, Len(data')),
                            !.windows = Min(iter.windows + 1, MaxFrames + 1),
                            !.after = IF iter.kill THEN Min(@ + 1, 2) ELSE @,
                            !.seen = IF Len(@) <= MaxFrames THEN Append(@, iter.r.pos) ELSE @]
    /\ UNCHANGED <<added, appended, rec, expo, range, othersQ>>

\* Iterative<Processor>::active and Iterative<Exporter>::active up to their first
\* return or to the sleep
iter_active ==
    /\ iter.pc = "active"
    /\ IF iter.consuming
       THEN LET b == iter.r # RangeAdd(iter.r, 1, Len(data))
            IN  iter' = [iter EXCEPT !.pc = IF b THEN "exec" ELSE "stop",
                                     !.stuck = ~b, !.slept = 0, !.ret = b]
       ELSE IF incrementable(iter.r, iter.step)
            THEN iter' = [iter EXCEPT !.pc = "exec", !.stuck = FALSE,
                                      !.slept = 0, !.ret = TRUE]
            ELSE iter' = [iter EXCEPT !.pc = "sleep", !.stuck = TRUE,
                                      !.slept = 0, !.ret = "none"]
    /\ UNCHANGED <<added, data, appended, rec, expo, range, othersQ>>

\* Iterative::active after std::this_thread::sleep_for(_idle_time):
\* return incrementable(_range, _step)
iter_sleep ==
    /\ iter.pc = "sleep"
    /\ LET b == incrementable(iter.r, iter.step)
       IN  iter' = [iter EXCEPT !.pc = IF b THEN "exec" ELSE "stop",
                                !.slept = 1, !.ret = b]
    /\ UNCHANGED <<added, data, appended, rec, expo, range, othersQ>>

\* Iterative::run after the loop: stop()
iter_stop ==
    /\ iter.pc = "stop"
    /\ iter' = [iter EXCEPT !.pc = "done"]
    /\ UNCHANGED <<added, data, appended, rec, expo, range, othersQ>>

\* basic_executor::kill called on the Iterative engine from another thread while
\* its run() is under way: _kill = true (the wait() that follows blocks the caller
\* until the launched run is over).  One kill is modelled, in the last run.
iter_kill ==
    /\ iter.pc \in {"exec", "erase", "active", "sleep", "stop"}
    /\ ~iter.kill
    /\ iter' = [iter EXCEPT !.kill = TRUE]
    /\ UNCHANGED <<added, data, appended, rec, expo, range, othersQ>>

InitQ ==
    /\ data = <<>>
    /\ added = NotAdded
    /\ appended = 0
    /\ rec = [pc |-> "idle", mx |-> FALSE]
    /\ expo = [pc |-> "idle", mutex |-> FALSE, r |-> NoRange]
    /\ range = [r |-> NoRange, used |-> FALSE]
    /\ iter = IterOff

\* the writer's calls on the Sequence
NextW ==
    \/ \E time \in 1..MaxFrames, sensors \in SensorSets, sequential, match_sensors \in BOOLEAN :
           add(time, sensors, sequential, match_sensors)
    \/ \E n \in 1..MaxFrames : discard(n)

NextQ ==
    \/ rec_lock
    \/ rec_read
    \/ rec_append
    \/ \E w \in 1..MaxFrames : expo_save(w)
    \/ expo_lock
    \/ expo_erase
    \/ \E n \in 1..MaxFrames : discard(n)
    \/ \E w \in 1..MaxFrames : reader_range(w)
    \/ reader_release
    \/ \E w \in 1..MaxFrames, o \in 0..1, s \in 1..2, c \in BOOLEAN :
           iter_run(begin(w, o), s, c)
    \/ iter_save
    \/ iter_execute
    \/ iter_active
    \/ iter_sleep
    \/ iter_stop

\* an Iterative engine run over a Sequence the Recorder appends to, with kill()
NextI ==
    \/ rec_lock
    \/ rec_read
    \/ rec_append
    \/ \E w \in 1..MaxFrames, o \in 0..1, s \in 1..2, c, clamped \in BOOLEAN :
           iter_run(IF clamped THEN begin(w, o) ELSE Range(0, w, o), s, c)
    \/ iter_save
    \/ iter_execute
    \/ iter_active
    \/ iter_sleep
    \/ iter_stop
    \/ iter_kill


(***************************************************************************)
(*        std::basic_executor, std::basic_timed_executor                   *)
(***************************************************************************)
Runs == 1..MaxRuns

\* the engines: the base class as it is ("base": default start/stop/active), a
\* derived engine that overrides active() ("loop"), and the timed engine ("timed")
Kinds == {"base", "loop", "timed"}

\* every call of kill() made so far has returned (the controlling thread is not
\* inside one when it begins a run)
KillReturned == kill /\ aux # "kill"

\* stale: when the run began _kill was set and kill() had returned
NoRun == [pc |-> "none", launched |-> FALSE, starts |-> 0, execs |-> 0, stops |-> 0,
          act |-> "none", after |-> 0, outcome |-> "none", stale |-> FALSE]

NoRet == [op |-> "none", id |-> 0, raised |-> FALSE]

\* the next run() of the engine
NextRun == Cardinality({i \in Runs : loop[i].pc # "none"}) + 1

\* no task behind a future, or one that has run to its end
Finished(i) == IF i = 0 THEN TRUE ELSE loop[i].pc = "done"

\* basic_executor::wait / basic_timed_executor::wait: what the caller blocks on.
\* The timed engine waits for _elapsed first, then for _done.
WaitOver == (kind = "timed" => elapsed # "running") /\ Finished(done)

\* basic_executor::run entered on the caller's thread
run ==
    /\ kind # "timed"
    /\ ctl.pc = "idle"
    /\ NextRun <= MaxRuns
    /\ loop' = [loop EXCEPT ![NextRun] = [NoRun EXCEPT !.pc = "start", !.stale = KillReturned]]
    /\ ctl' = [pc |-> "run", id |-> NextRun, then |-> "none", ret |-> NoRet]
    /\ UNCHANGED <<kind, kill, done, elapsed, ioctx, aux, othersE>>

\* basic_executor::run returns, or propagates what execute() raised
run_return ==
    /\ ctl.pc = "run"
    /\ loop[ctl.id].pc = "done"
    /\ ctl' = [pc |-> "idle", id |-> 0, then |-> "none",
               ret |-> [op |-> "run", id |-> ctl.id,
                        raised |-> (loop[ctl.id].outcome = "raised")]]
    /\ UNCHANGED <<kind, kill, done, elapsed, ioctx, loop, aux, othersE>>

\* basic_executor::launch: std::async starts run() on a new thread ...
launch ==
    /\ kind # "timed"
    /\ ctl.pc = "idle"
    /\ NextRun <= MaxRuns
    /\ loop' = [loop EXCEPT ![NextRun] = [NoRun EXCEPT !.pc = "start", !.launched = TRUE,
                                                       !.stale = KillReturned]]
    /\ ctl' = [pc |-> "launch", id |-> NextRun, then |-> "none", ret |-> NoRet]
    /\ UNCHANGED <<kind, kill, done, elapsed, ioctx, aux, othersE>>

\* ... and the move assignment to _done releases the previous task's state, which
\* blocks until that task has finished
launch_return ==
    /\ ctl.pc = "launch"
    /\ Finished(done)
    /\ done' = ctl.id
    /\ ctl' = [pc |-> "idle", id |-> 0, then |-> "none",
               ret |-> [op |-> "launch", id |-> ctl.id, raised |-> FALSE]]
    /\ UNCHANGED <<kind, kill, elapsed, ioctx, loop, aux, othersE>>

\* basic_timed_executor::reset, first half: _timer.expires_after(time);
\* _timer.async_wait(...)
reset_arm(then) ==
    /\ kind = "timed"
    /\ ctl.pc = "idle"
    /\ NextRun <= MaxRuns
    /\ ioctx' = [ioctx EXCEPT !.armed = TRUE, !.expired = FALSE]
    /\ ctl' = [pc |-> "reset", id |-> 0, then |-> then, ret |-> NoRet]
    /\ UNCHANGED <<kind, kill, done, elapsed, loop, aux, othersE>>

\* basic_timed_executor::run(time): reset(time); run()
timed_run == reset_arm("run")

\* basic_timed_executor::launch(time): reset(time); launch()
timed_launch == reset_arm("launch")

\* basic_timed_executor::reset, second half: if (_elapsed.valid()) _elapsed.wait();
\* _elapsed = std::async([this] { _io.run(); }); then run() or launch() begins
reset ==
    /\ ctl.pc = "reset"
    /\ elapsed # "running"
    /\ elapsed' = "running"
    /\ loop' = [loop EXCEPT ![NextRun] = [NoRun EXCEPT !.pc = "start",
                                                       !.launched = (ctl.then = "launch"),
                                                       !.stale = KillReturned]]
    /\ ctl' = [ctl EXCEPT !.pc = ctl.then, !.id = NextRun]
    /\ UNCHANGED <<kind, kill, done, ioctx, aux, othersE>>

\* the steady_timer reaches its expiry
timer_expire ==
    /\ ioctx.armed
    /\ ~ioctx.expired
    /\ ioctx' = [ioctx EXCEPT !.expired = TRUE]
    /\ UNCHANGED <<kind, kill, done, elapsed, loop, ctl, aux, othersE>>

\* the task behind _elapsed: _io.run() returns at once on a stopped io_context,
\* otherwise once the wait handler has run and no work is left; the context is
\* stopped from then on (nothing calls restart())
io_run ==
    /\ elapsed = "running"
    /\ ioctx.stopped \/ ~ioctx.armed \/ ioctx.expired
    /\ elapsed' = "ready"
    /\ ioctx' = [ioctx EXCEPT !.armed = IF ioctx.stopped THEN ioctx.armed ELSE FALSE,
                              !.stopped = TRUE]
    /\ UNCHANGED <<kind, kill, done, loop, ctl, aux, othersE>>

\* wait() entered; then = "ended" when the launched loop has terminated already
wait ==
    /\ ctl.pc = "idle"
    /\ ctl' = [pc |-> "wait", id |-> 0, ret |-> NoRet,
               then |-> IF done # 0 /\ Finished(done) THEN "ended" ELSE "none"]
    /\ UNCHANGED <<kind, kill, done, elapsed, ioctx, loop, aux, othersE>>

\* wait() returns: _done.wait() hands nothing of the task's outcome to the caller
wait_return ==
    /\ ctl.pc = "wait"
    /\ WaitOver
    /\ ctl' = [pc |-> "idle", id |-> 0, then |-> "none",
               ret |-> [op |-> "wait", id |-> done, raised |-> FALSE]]
    /\ UNCHANGED <<kind, kill, done, elapsed, ioctx, loop, aux, othersE>>

\* basic_executor::kill: _kill = true; ...
kill_call ==
    /\ ctl.pc = "idle"
    /\ kill' = TRUE
    /\ ctl' = [pc |-> "kill", id |-> 0, then |-> "none", ret |-> NoRet]
    /\ UNCHANGED <<kind, done, elapsed, ioctx, loop, aux, othersE>>

\* ... wait()
kill_return ==
    /\ ctl.pc = "kill"
    /\ WaitOver
    /\ ctl' = [pc |-> "idle", id |-> 0, then |-> "none",
               ret |-> [op |-> "kill", id |-> done, raised |-> FALSE]]
    /\ UNCHANGED <<kind, kill, done, elapsed, ioctx, loop, aux, othersE>>

\* basic_executor::kill called from a second thread while run() occupies the first
aux_kill ==
    /\ aux = "idle"
    /\ ctl.pc = "run"
    /\ kill' = TRUE
    /\ aux' = "kill"
    /\ UNCHANGED <<kind, done, elapsed, ioctx, loop, ctl, othersE>>

aux_return ==
    /\ aux = "kill"
    /\ WaitOver
    /\ aux' = "done"
    /\ UNCHANGED <<kind, kill, done, elapsed, ioctx, loop, ctl, othersE>>

\* basic_executor::run: start()
loop_start(i) ==
    /\ loop[i].pc = "start"
    /\ loop' = [loop EXCEPT ![i].pc = "active", ![i].starts = @ + 1]
    /\ UNCHANGED <<kind, kill, done, elapsed, ioctx, ctl, aux, othersE>>

\* basic_executor::active returns false; basic_timed_executor::active returns
\* _elapsed.wait_for(0) != ready; a derived active() returns what it likes
active(b) ==
    CASE kind = "base" -> b = FALSE
      [] kind = "timed" -> b = (elapsed # "ready")
      [] OTHER -> TRUE

\* the loop after while (active()) found it false, with the stop() dropped
loop_active_return(i, b) ==
    /\ loop[i].pc = "active"
    /\ active(b)
    /\ b => loop[i].execs < MaxExec
    /\ loop' = [loop EXCEPT ![i].pc = IF b THEN "execute" ELSE "done",
                            ![i].act = IF b THEN "true" ELSE "false",
                            ![i].outcome = IF b THEN @ ELSE "stopped",
                            ![i].after = IF b /\ kill THEN Min(@ + 1, 2) ELSE @]
    /\ UNCHANGED <<kind, kill, done, elapsed, ioctx, ctl, aux, othersE>>

\* basic_executor::run: while (active()) -- into execute() when true, on to stop()
\* when false
loop_active(i, b) ==
    /\ loop[i].pc = "active"
    /\ active(b)
    /\ b => loop[i].execs < MaxExec
    /\ loop' = [loop EXCEPT ![i].pc = IF b THEN "execute" ELSE "stop",
                            ![i].act = IF b THEN "true" ELSE "false",
                            ![i].after = IF b /\ kill THEN Min(@ + 1, 2) ELSE @]
    /\ UNCHANGED <<kind, kill, done, elapsed, ioctx, ctl, aux, othersE>>

\* basic_executor::run: execute() returns or raises; what it raises leaves run()
loop_execute(i, ok) ==
    /\ loop[i].pc = "execute"
    /\ loop' = [loop EXCEPT ![i].pc = IF ok THEN "check" ELSE "done",
                            ![i].execs = @ + 1,
                            ![i].outcome = IF ok THEN @ ELSE "raised"]
    /\ UNCHANGED <<kind, kill, done, elapsed, ioctx, ctl, aux, othersE>>

\* the loop with the test of _kill dropped
loop_kill_ignored(i) ==
    /\ loop[i].pc = "check"
    /\ loop' = [loop EXCEPT ![i].pc = "active"]
    /\ UNCHANGED <<kind, kill, done, elapsed, ioctx, ctl, aux, othersE>>

\* basic_executor::run: if (_kill) return;
loop_kill_check(i) ==
    /\ loop[i].pc = "check"
    /\ loop' = [loop EXCEPT ![i].pc = IF kill THEN "done" ELSE "active",
                            ![i].outcome = IF kill THEN "killed" ELSE @]
    /\ UNCHANGED <<kind, kill, done, elapsed, ioctx, ctl, aux, othersE>>

\* basic_executor::run: stop()
loop_stop(i) ==
    /\ loop[i].pc = "stop"
    /\ loop' = [loop EXCEPT ![i].pc = "done", ![i].stops = @ + 1,
                            ![i].outcome = "stopped"]
    /\ UNCHANGED <<kind, kill, done, elapsed, ioctx, ctl, aux, othersE>>

InitE ==
    /\ kind \in Kinds
    /\ kill = FALSE
    /\ done = 0
    /\ elapsed = "invalid"
    /\ ioctx = [armed |-> FALSE, expired |-> FALSE, stopped |-> FALSE]
    /\ loop = [i \in Runs |-> NoRun]
    /\ ctl = [pc |-> "idle", id |-> 0, then |-> "none", ret |-> NoRet]
    /\ aux = "idle"

LoopStep(i) ==
    \/ loop_start(i)
    \/ \E b \in BOOLEAN : loop_active(i, b)
    \/ \E ok \in BOOLEAN : loop_execute(i, ok)
    \/ loop_kill_check(i)
    \/ loop_stop(i)

NextE ==
    \/ run
    \/ run_return
    \/ launch
    \/ launch_return
    \/ timed_run
    \/ timed_launch
    \/ reset
    \/ timer_expire
    \/ io_run
    \/ wait
    \/ wait_return
    \/ kill_call
    \/ kill_return
    \/ aux_kill
    \/ aux_return
    \/ \E i \in Runs : LoopStep(i)

(***************************************************************************)
(*        trigno::network::BasicDataClient (frame decoder)                 *)
(***************************************************************************)
\* sample rates a configuration can hold (Hz)
Rates == 1..2

\* _frame_idx before anything has been assigned to it
Indeterminate == 0 - 1

\* a time stamp frame_idx * (1 / sample_rate), kept as the fraction num / den
Stamp(idx, rate) == [num |-> idx, den |-> rate]

NoCall == [op |-> "none", raised |-> "returned", observed |-> "none",
           k |-> 0, stamp |-> Stamp(0, 0)]

\* BasicDataClient::connect: _network.connect(address, port, timeout); the call
\* of reset() is commented out
dc_connect ==
    /\ ~client.connected
    /\ client' = [connected |-> TRUE, k |-> 0, last |-> NoCall]
    /\ UNCHANGED <<frame_idx, sample_rate, othersD>>

\* BasicDataClient::disconnect
dc_disconnect ==
    /\ client.connected
    /\ client' = [client EXCEPT !.connected = FALSE, !.last = NoCall]
    /\ UNCHANGED <<frame_idx, sample_rate, othersD>>

\* EMGDataClient::reset (called by Client::initialize after the connections are
\* made): _frame_idx = 0; _sample_rate = rate of the first active sensor
dc_reset(rate) ==
    /\ frame_idx' = 0
    /\ sample_rate' = rate
    /\ client' = [client EXCEPT !.k = 0, !.last = NoCall]
    /\ UNCHANGED othersD

\* BasicDataClient::read< Frame::Stamped >: _network.read(_buffer, timeout) inside
\* try / catch (boost::exception&), which matches neither of the Transport's
\* throws; then Stamped(_frame_idx++ * (1.0 / _sample_rate), buildFrame(sensors)).
\* v is what a _frame_idx that was never assigned turns out to hold.
dc_read(res, v) ==
    /\ client.connected
    /\ frame_idx <= MaxFrames
    /\ (frame_idx # Indeterminate \/ res # "returned") => v = 0
    /\ IF res = "returned"
         THEN /\ frame_idx' = (IF frame_idx = Indeterminate THEN v ELSE frame_idx) + 1
              /\ client' = [client EXCEPT !.k = @ + 1,
                               !.last = [op |-> "read", raised |-> res, observed |-> "frame",
                                         k |-> client.k,
                                         stamp |-> Stamp(IF frame_idx = Indeterminate
                                                           THEN v ELSE frame_idx,
                                                         sample_rate)]]
         ELSE /\ frame_idx' = frame_idx
              /\ client' = [client EXCEPT
                               !.last = [op |-> "read", raised |-> res, observed |-> res,
                                         k |-> client.k, stamp |-> Stamp(0, 0)]]
    /\ UNCHANGED <<sample_rate, othersD>>

\* BasicDataClient::read< Frame::Stamped >(out, sensors, timeout), the in-place
\* overload: the same _network.read, then
\*   *out = Stamped(_frame_idx++ * _sample_rate, buildFrame(sensors));
\*   *out = buildFrame(sensors);
\* the second assignment being outside the if.  keeps tells whether assigning a
\* Frame to a Stamped leaves its key alone or replaces it with the default key.
\* by_value is the stamp the value-returning read gives for the same counter.
dc_read_into(res, v, keeps) ==
    /\ client.connected
    /\ frame_idx <= MaxFrames
    /\ (frame_idx # Indeterminate \/ res # "returned") => v = 0
    /\ res # "returned" => keeps
    /\ LET idx == IF frame_idx = Indeterminate THEN v ELSE frame_idx
       IN  IF res = "returned"
             THEN /\ frame_idx' = idx + 1
                  /\ client' = [client EXCEPT !.k = @ + 1,
                                   !.last = [op |-> "read_into", raised |-> res,
                                             observed |-> "frame", k |-> client.k,
                                             stamp |-> IF keeps
                                                         THEN [num |-> idx * sample_rate, den |-> 1]
                                                         ELSE [num |-> 0, den |-> 1],
                                             by_value |-> Stamp(idx, sample_rate),
                                             advanced |-> frame_idx' - idx]]
             ELSE /\ frame_idx' = frame_idx
                  /\ client' = [client EXCEPT
                                   !.last = [op |-> "read_into", raised |-> res, observed |-> res,
                                             k |-> client.k, stamp |-> Stamp(0, 0),
                                             by_value |-> Stamp(0, 0), advanced |-> 0]]
    /\ UNCHANGED <<sample_rate, othersD>>

\* BasicDataClient::waitForData (noexcept): read(nullptr, sensor::all, timeout)
\* inside try / catch (std::exception&).  boost::system::system_error is a
\* std::exception; the timed_out value thrown by tcp_client::check_timeout is
\* not, and leaving a noexcept function by exception is std::terminate.
dc_waitForData(res) ==
    /\ client.connected
    /\ client' = [client EXCEPT
                     !.last = [op |-> "waitForData", raised |-> res,
                               observed |-> CASE res = "returned" -> "true"
                                              [] res = "system_error" -> "false"
                                              [] OTHER -> "terminate",
                               k |-> client.k, stamp |-> Stamp(0, 0)]]
    /\ UNCHANGED <<frame_idx, sample_rate, othersD>>

\* BasicDataClient::BasicDataClient: _sample_rate(0.0); _frame_idx is given no
\* value
InitD ==
    /\ frame_idx = Indeterminate
    /\ sample_rate = 0
    /\ client = [connected |-> FALSE, k |-> 0, last |-> NoCall]

NextD ==
    \/ dc_connect
    \/ dc_disconnect
    \/ \E rate \in Rates : dc_reset(rate)
    \/ \E res \in {"returned"} \cup Raises, v \in 0..MaxFrames : dc_read(res, v)
    \/ \E res \in {"returned"} \cup Raises, v \in 0..MaxFrames, keeps \in BOOLEAN :
           dc_read_into(res, v, keeps)
    \/ \E res \in {"returned"} \cup Raises : dc_waitForData(res)

(***************************************************************************)
(*        trigno::network::Interface::waitFor                              *)
(***************************************************************************)
\* the texts the device sends as one line, and the targets waited for
Texts == {<<Payload(a)>> : a \in 1..2} \cup {<<Payload(a), Payload(b)>> : a, b \in 1..2}
Targets == {<<Payload(a)>> : a \in 1..2}

\* the bytes found in memory behind the end of the vector read_until() returned,
\* up to the first NUL: the vector holds no terminator of its own
Beyond == {<<>>} \cup Targets

\* std::string(const char*): the bytes before the first NUL
CStr(bytes) ==
    IF \E i \in 1..Len(bytes) : bytes[i] = NUL
      THEN SubSeq(bytes, 1, (CHOOSE i \in 1..Len(bytes) :
                                 bytes[i] = NUL /\ \A j \in 1..(i - 1) : bytes[j] # NUL) - 1)
      ELSE bytes

\* response.find(target) != std::string::npos
Contains(response, target) ==
    \E i \in 1..Len(response) :
        /\ i + Len(target) - 1 <= Len(response)
        /\ SubSeq(response, i, i + Len(target) - 1) = target

NoWait ==
    [pc |-> "idle", target |-> <<>>, max |-> 0, rep |-> 0, heard |-> <<>>, result |-> "none"]

\* Interface::waitFor(target, timeout, max_attempts): entry, rep = 0
waitFor(target, max_attempts) ==
    /\ wf.pc \in {"idle", "done"}
    /\ wf' = [NoWait EXCEPT !.pc = "loop", !.target = target, !.max = max_attempts]
    /\ UNCHANGED othersF

\* one turn of the loop: read_until('\n', timeout) returns the line text CR LF,
\* response = std::string(buffer.data()), then the search for target
waitFor_read(text, beyond) ==
    /\ wf.pc = "loop"
    /\ wf.rep < wf.max
    /\ LET buffer == text \o <<CR, LF>>
           response == CStr(buffer \o beyond \o <<NUL>>)
       IN  wf' = IF Contains(response, wf.target)
                   THEN [wf EXCEPT !.heard = Append(@, buffer), !.pc = "done", !.result = "true"]
                   ELSE [wf EXCEPT !.heard = Append(@, buffer), !.rep = @ + 1]
    /\ UNCHANGED othersF

\* read_until throws (timeout or connection lost): waitFor has no handler
waitFor_raise(res) ==
    /\ wf.pc = "loop"
    /\ wf.rep < wf.max
    /\ wf' = [wf EXCEPT !.pc = "done", !.result = res]
    /\ UNCHANGED othersF

\* the loop is left with rep = max_attempts: return false
waitFor_return ==
    /\ wf.pc = "loop"
    /\ wf.rep >= wf.max
    /\ wf' = [wf EXCEPT !.pc = "done", !.result = "false"]
    /\ UNCHANGED othersF

InitF == wf = NoWait

NextF ==
    \/ \E target \in Targets, max_attempts \in 0..MaxAttempts : waitFor(target, max_attempts)
    \/ \E text \in Texts, beyond \in Beyond : waitFor_read(text, beyond)
    \/ \E res \in Raises : waitFor_raise(res)
    \/ waitFor_return

(***************************************************************************)
(*        std::sorted_indexer: find() and range() by key                   *)
(***************************************************************************)
\* the time stamps passed to find() / range(), counted in halves: 3 is 1.5.
\* A stored key k is the time stamp k.0, that is 2 * k halves.
Halves == 0..(2 * MaxFrames + 2)

\* key_comparer::operator()(element, key): element.key < key
key_comparer_le(element, key) == 2 * element.key <= key

key_comparer(element, key) == 2 * element.key < key

\* std::lower_bound(_data.begin(), _data.end(), key, key_comparer()): the binary
\* search over the len elements that follow position first
RECURSIVE lower_bound(_, _, _)
lower_bound(first, len, key) ==
    IF len <= 0 THEN first
    ELSE LET half == len \div 2
             middle == first + half
         IN  IF key_comparer(data[middle + 1], key)
               THEN lower_bound(middle + 1, len - half - 1, key)
               ELSE lower_bound(first, half, key)

\* sorted_indexer::find(key): std::distance(_data.begin(), lower_bound(...))
find(key) == lower_bound(0, Len(data), key)

\* the conversion of a floating-point argument to size_type: truncation
ToSize(key) == key \div 2

\* the time stamps of the stored frames, in order
Keys == [i \in 1..Len(data) |-> data[i].key]

\* keys: the time stamps the Sequence held when the call was made
NoLookup == [op |-> "none", key |-> 0, width |-> 0, pos |-> 0, keys |-> <<>>]

\* sequence.find(key)
seq_find(key) ==
    /\ lookup' = [op |-> "find", key |-> key, width |-> 0, pos |-> find(key), keys |-> Keys]
    /\ UNCHANGED <<varsQ, othersL>>

\* sequence.range(start, width) with a floating-point start.  key_type is float,
\* which converts to size_type, so the overload range(const key_type&, ...) is
\* disabled (enable_if< !is_convertible< Arg, size_type > >) and the call is
\* range(size_type pos, size_type width): element_range(&_data, pos, width, overlap)
seq_range(start, width) ==
    /\ lookup' = [op |-> "range", key |-> start, width |-> width,
                  pos |-> Range(ToSize(start), width, 0).pos, keys |-> Keys]
    /\ UNCHANGED <<varsQ, othersL>>

InitL == lookup = NoLookup

NextL ==
    \/ \E time \in 1..MaxFrames, sequential \in BOOLEAN : add(time, AllSensors, sequential, FALSE)
    \/ \E key \in Halves : seq_find(key)
    \/ \E start \in Halves, width \in 1..2 : seq_range(start, width)

(***************************************************************************)
(*        trigno::Sample, EMGDataClient / AUXDataClient::buildFrame        *)
(***************************************************************************)
\* the 4-byte values the device sends, and the contents of _buffer
RawValues == 1..2
Buffers == [1..BufferLen -> RawValues]

\* the sensors, the lists of sensors a frame is asked for and the configurations:
\* isActive(), startIndex() and the number of channels of each sensor.
\* _start_index is 0 after SensorConfiguration::reset() and is otherwise
\* atoi() of the answer to STARTINDEX?, which nothing compares with the buffer.
Sensors == 1..2
Lists == {<<1>>, <<2>>, <<1, 2>>}
Configurations ==
    [Sensors -> [active : BOOLEAN, startIndex : 0..BufferLen, nChannels : 1..2]]

\* the position in _buffer (in values) buildFrame decodes a sensor from:
\* startIndex() - 1 in EMGDataClient, startIndex() in AUXDataClient.
\* startIndex() is a size_t: 0 - 1 wraps, and so does the byte offset
\* pos * sizeof(DataValue), which leaves the address one value before _buffer.
Position(port, sensor) ==
    IF port = "emg" THEN sensor.startIndex - 1 ELSE sensor.startIndex

\* Sample::Sample(id, n_channels, raw_data):
\*   for (ch = 0; ch < n_channels; ch++) memcpy(&_data[ch], raw_data, sizeof(_data[ch]));
\* raw_data is the buffer from the sensor's position on
Sample(id, n_channels, raw_data) ==
    [id |-> id, data |-> [ch \in 1..n_channels |-> raw_data[1]]]

\* buildFrame(sensors): one Sample per active sensor of the list, in its order.
\* &_buffer[pos * sizeof(DataValue)] is not compared with the size of _buffer:
\* stray is what the memory outside it holds.
RECURSIVE buildFrame(_, _, _, _, _)
buildFrame(port, sensors, configuration, buffer, stray) ==
    IF sensors = <<>> THEN <<>>
    ELSE LET sensor_id == Head(sensors)
             rest == buildFrame(port, Tail(sensors), configuration, buffer, stray)
             pos == Position(port, configuration[sensor_id])
             raw_data == IF pos + 1 \in DOMAIN buffer
                           THEN SubSeq(buffer, pos + 1, Len(buffer))
                           ELSE <<stray>>
         IN  IF ~configuration[sensor_id].active
               THEN rest
               ELSE <<Sample(sensor_id, configuration[sensor_id].nChannels, raw_data)>> \o rest

NotDecoded ==
    [port |-> "none", sensors |-> <<>>, configuration |-> <<>>, buffer |-> <<>>, frame |-> <<>>]

\* a call of buildFrame, whatever the configuration holds
build ==
    /\ decoded.buffer = <<>>
    /\ \E port \in {"emg", "aux"}, sensors \in Lists, configuration \in Configurations,
          buffer \in Buffers, stray \in RawValues :
           decoded' = [port |-> port, sensors |-> sensors, configuration |-> configuration,
                       buffer |-> buffer,
                       frame |-> buildFrame(port, sensors, configuration, buffer, stray)]
    /\ UNCHANGED othersB

\* the caller is done with the Frame
release ==
    /\ decoded.buffer # <<>>
    /\ decoded' = [NotDecoded EXCEPT !.port = "released"]
    /\ UNCHANGED othersB

InitB == decoded = NotDecoded

NextB ==
    \/ build
    \/ release

(***************************************************************************)
(*        Specifications                                                   *)
(***************************************************************************)
Init == InitT /\ InitS /\ InitQ /\ InitE /\ InitD /\ InitF /\ InitL /\ InitB

\* the Transport alone
SpecT == Init /\ [][NextT]_vars

\* the Protocol Session alone
SpecS == Init /\ [][NextS]_vars

\* the Sequence with its recorder, exporter, reader and Iterative run
SpecQ == Init /\ [][NextQ]_vars

\* the Execution Engine
SpecE == Init /\ [][NextE]_vars

\* the Execution Engine with every thread scheduled and the timer running
FairE ==
    /\ \A i \in Runs : WF_vars(LoopStep(i))
    /\ WF_vars(timer_expire)
    /\ WF_vars(io_run)

SpecEFair == SpecE /\ FairE

\* the Sequence under the calls of its writer
SpecW == Init /\ [][NextW]_vars

\* the data client
SpecD == Init /\ [][NextD]_vars

\* Interface::waitFor
SpecF == Init /\ [][NextF]_vars

\* the Sequence under appends and look-ups by time stamp
SpecL == Init /\ [][NextL]_vars

\* the decoding of a frame
SpecB == Init /\ [][NextB]_vars

\* the Iterative engine over a Sequence that is being recorded
SpecI == Init /\ [][NextI]_vars

Next == NextT \/ NextS \/ NextQ \/ NextW \/ NextE \/ NextD \/ NextF \/ NextL \/ NextB \/ NextI

Spec == Init /\ [][Next]_vars


(***************************************************************************)
(*        Properties                                                       *)
(***************************************************************************)
\* C1: an operation on the Transport whose peer stays silent ends by raising no
\* later than its deadline, and the Transport is disconnected when it returns.
C1_Original ==
    /\ (last.op # "none" /\ last.silent) => (last.result # "returned" /\ ~last.open)
    /\ (call.state = "run" /\ call.silent) => call.spent <= call.timeout

\* the bytes of a logged response
ResponseBytes(e) == {e.response[k] : k \in 1..Len(e.response)}

\* C2: the response a query hands back is the reply to that query: it holds
\* nothing of the reply to any other request, be it an earlier command sent
\* without an expected response or text left unread.
C2_Original ==
    \A i \in 1..Len(log) : \A j \in 1..MaxQueries :
        (log[i].kind # "fire" /\ j # log[i].id) => Payload(j) \notin ResponseBytes(log[i])

\* C3: at most one query is between its write and its read at any time, the
\* queries started by schedule() included.
C3_Original ==
    ~(thread["main"].pc = "wrote" /\ thread["task"].pc = "wrote")

\* C4: the Recorder's append and the consuming Exporter's erase on the same
\* Sequence are never both under way.
C4_Original ==
    ~(rec.pc = "append" /\ expo.pc = "erase")

\* C5: every position inside the bounds of a Range in use is a position of the
\* Sequence.
C5_Original ==
    range.used => range.r.pos + range.r.width <= Len(data)

\* the hooks of run i were all called on the thread that called run(): a run()
\* called directly occupies its caller until it is over
OnCallingThread(i) ==
    (~loop[i].launched /\ loop[i].pc \notin {"none", "done"}) =>
        (ctl.pc = "run" /\ ctl.id = i)

\* what C6 says of start() and execute()
HookOrder(i) ==
    /\ loop[i].pc \in {"none", "start"} => (loop[i].starts = 0 /\ loop[i].execs = 0)
    /\ loop[i].pc \notin {"none", "start"} => loop[i].starts = 1
    /\ loop[i].pc = "execute" => loop[i].act = "true"
    /\ loop[i].pc # "done" => loop[i].stops = 0
    /\ OnCallingThread(i)

\* C6 as stated: start() once before any execute(), execute() only after active()
\* returned true, and stop() exactly once after the last execute() unless the
\* kill flag ended the loop.
C6_Original ==
    \A i \in Runs :
        /\ HookOrder(i)
        /\ (loop[i].pc = "done" /\ loop[i].outcome # "killed") => loop[i].stops = 1

\* C6, amended: start() once before any execute(), execute() only after active()
\* returned true, and stop() exactly once after the last execute() unless the
\* kill flag or an error raised by execute() ended the loop, in which case
\* stop() is not called.
C6_Amended ==
    \A i \in Runs :
        /\ HookOrder(i)
        /\ (loop[i].pc = "done" /\ loop[i].outcome = "stopped") =>
               (loop[i].stops = 1 /\ loop[i].act = "false")
        /\ (loop[i].pc = "done" /\ loop[i].outcome \in {"killed", "raised"}) =>
               loop[i].stops = 0

\* a run that executed, found active() false and stopped
C6_Witness ==
    \E i \in Runs : /\ loop[i].pc = "done"
                    /\ loop[i].outcome = "stopped"
                    /\ loop[i].execs > 0
                    /\ loop[i].stops = 1

\* C7 (safety): with the kill flag set a loop starts at most one further
\* execute(), and kill() returns only when every launched loop has returned.
KillBounded ==
    /\ \A i \in Runs : loop[i].after <= 1
    /\ (ctl.pc = "idle" /\ ctl.ret.op = "kill") =>
           \A i \in Runs : loop[i].launched => loop[i].pc = "done"

\* C7: once the kill flag is set on a running engine the loop completes the
\* execute() in progress, starts at most one further execute() and returns;
\* kill() on a launched engine returns after that.
C7_Kill ==
    /\ []KillBounded
    /\ \A i \in Runs : (kill /\ loop[i].pc \notin {"none", "done"}) ~> (loop[i].pc = "done")

\* kill() has returned on a launched loop that the flag ended
C7_Witness ==
    /\ ctl.pc = "idle"
    /\ ctl.ret.op = "kill"
    /\ \E i \in Runs : /\ loop[i].launched
                       /\ loop[i].outcome = "killed"
                       /\ loop[i].after = 1

\* C8: when the Range cannot be advanced, active() sleeps for the idle duration
\* once and checks again once before it answers.
C8_Original ==
    (iter.pc # "sleep" /\ iter.stuck) => iter.slept = 1

\* C9: what execute() raised reaches the caller of run(), and reaches the caller
\* that waited for the launched task.
C9_Original ==
    \A i \in Runs :
        (/\ ctl.pc = "idle"
         /\ ctl.ret.op \in {"run", "wait", "kill"}
         /\ ctl.ret.id = i
         /\ loop[i].outcome = "raised") => ctl.ret.raised

\* C10: launch() returns without waiting for the loop it started; wait()
\* returns only after the launched task has completed, and at once when
\* launch() was never called.
C10_Original ==
    /\ (ctl.pc = "launch" /\ Finished(done)) => ENABLED launch_return
    /\ (ctl.pc = "idle" /\ ctl.ret.op = "wait") => Finished(ctl.ret.id)
    /\ (ctl.pc = "wait" /\ \A i \in Runs : ~loop[i].launched) => ENABLED wait_return

\* C11: on a timed engine active() answers false only once the duration armed
\* for that run has elapsed (and then stop() is called and run() returns).
C11_Original ==
    \A i \in Runs :
        (/\ kind = "timed"
         /\ NextRun = i + 1
         /\ ctl.pc # "reset"
         /\ loop[i].act = "false") => ioctx.expired

\* C12: no two launched loops of the engine are running at the same time.
C12_Original ==
    \A i, j \in Runs :
        (/\ i # j
         /\ loop[i].launched
         /\ loop[j].launched
         /\ loop[i].pc \notin {"none", "done"}) => loop[j].pc \in {"none", "done"}

\* C13: the socket is closed by a deadline only when the operation in progress
\* has used up its own timeout; the deadline of an operation that completed
\* earlier closes nothing and fails nothing.
C13_Disarmed ==
    /\ last.result = "timed_out" => last.spent >= last.timeout
    /\ (call.state = "run" /\ call.spent < call.timeout /\ ~call.closed /\ call.op # "connect")
           => socket # "closed"

\* an operation returned successfully although the deadline of the operation
\* completed before it had passed in between
C13_Witness ==
    /\ last.late
    /\ last.op = "read"
    /\ last.result = "returned"
    /\ last.own

\* C14: a read, read_until or write begun on a closed socket fails with an
\* error without any time passing, and while it runs a handler is ready.
C14_ClosedFails ==
    /\ (last.closed /\ last.op \in {"read", "until", "write"}) =>
           (last.result = "system_error" /\ last.spent = 0)
    /\ (call.state = "run" /\ call.closed /\ call.op \in {"read", "until", "write"}) =>
           (call.spent = 0 /\ io # <<>>)

\* a write on a closed socket has failed at once
C14_Witness ==
    /\ last.closed
    /\ last.op = "write"
    /\ last.result = "system_error"
    /\ last.spent = 0

C16_Original ==
    \A i \in 1..Len(log) :
        InvalidCommand \in ResponseBytes(log[i]) => log[i].observed = "invalid_argument"

\* the replies the device can send
Replies == {<<Payload(j)>> : j \in 0..MaxQueries}

\* C20: a query that returns hands back exactly the bytes of one response line,
\* its termination removed.
C20_Original ==
    \A i \in 1..Len(log) :
        (log[i].kind # "fire" /\ log[i].raised = "returned") => log[i].response \in Replies

\* C17: wait_for_data never raises: it answers false when the read timed out
\* and true when a frame was read.
C17_Original ==
    client.last.op = "waitForData" =>
        /\ client.last.observed \in {"true", "false"}
        /\ client.last.raised = "timed_out" => client.last.observed = "false"
        /\ client.last.raised = "returned" => client.last.observed = "true"

\* C18: the k-th stamped read after connecting is stamped k * (1 / sample_rate).
C18_Original ==
    (client.last.op = "read" /\ client.last.raised = "returned") =>
        client.last.stamp = Stamp(client.last.k, sample_rate)

\* C19: an add that the enabled ordering check or the enabled sensor-set check
\* must reject raises and leaves the Sequence as it was; an add that raises
\* never changes the Sequence.
C19_AddRejects ==
    /\ added.rejectable => (added.raised /\ added.kept)
    /\ added.raised => added.kept

\* an add was rejected while the Sequence held elements
C19_Witness ==
    /\ added.rejectable
    /\ added.raised
    /\ added.kept
    /\ data # <<>>

\* C21: command with a non-empty expected response answers true exactly when
\* the response it read equals the expected one; with an empty expected
\* response it writes, reads nothing and answers true.
C21_Command ==
    /\ \A i \in 1..Len(log) :
          /\ log[i].kind = "command" =>
                /\ log[i].observed = "true" <=>
                      (log[i].raised = "returned" /\ log[i].response = <<Payload(log[i].id)>>)
                /\ log[i].raised = "returned" => log[i].observed \in {"true", "false"}
          /\ (log[i].kind = "fire" /\ log[i].raised = "returned") =>
                (log[i].observed = "true" /\ log[i].response = <<>>)
    /\ \A t \in Threads : thread[t].kind # "fire"

C21_Witness ==
    /\ \E i \in 1..Len(log) : /\ log[i].kind = "fire"
                               /\ log[i].observed = "true"
    /\ \E i \in 1..Len(log) : /\ log[i].kind = "command"
                               /\ log[i].raised = "returned"
                               /\ log[i].observed = "false"
                               /\ log[i].response # <<>>

\* the lines a call of waitFor has read that contain its target
Hits == {i \in 1..Len(wf.heard) : Contains(wf.heard[i], wf.target)}

\* C22: waitFor performs at most max_attempts line reads, answers true as soon
\* as a line holding the target has been read, and false when none of the
\* max_attempts lines holds it.
C22_Original ==
    /\ Len(wf.heard) <= wf.max
    /\ (wf.pc = "loop" \/ wf.result = "false") => Hits = {}
    /\ wf.result = "true" => Hits = {Len(wf.heard)}
    /\ (wf.pc = "done" /\ Len(wf.heard) = wf.max /\ Hits = {}) => wf.result # "true"

\* C23: a Filter run that performed N processing steps has left N results in
\* its output Sequence, one per window.
C23_Original ==
    (iter.pc = "done" /\ ~iter.consuming) => Len(iter.out) = iter.windows

\* C24: on a Sequence holding the frames stamped 1.0, 2.0, 3.0, range(2.0, 2)
\* starts at the frame stamped 2.0 (position 1), the position the time stamp
\* look-up gives, and so holds the frames stamped 2.0 and 3.0.
C24_Original ==
    (lookup.op = "range" /\ lookup.keys = <<1, 2, 3>> /\ lookup.key = 4 /\ lookup.width = 2) =>
        lookup.pos = 1

\* the time stamps increased strictly along the Sequence a look-up was made on
Increasing == \A i \in 1..(Len(lookup.keys) - 1) : lookup.keys[i] < lookup.keys[i + 1]

C27_Original ==
    \A i \in Runs : (kind = "base" /\ loop[i].pc = "done") => loop[i].execs = 1

\* C28: on a timed engine a wait() entered after the launched loop has
\* terminated (killed, or left by what execute() raised) returns at once,
\* whatever is left of the timer's duration.
C28_Original ==
    (/\ kind = "timed"
     /\ ctl.pc = "wait"
     /\ ctl.then = "ended") => ENABLED wait_return

\* two time stamps kept as fractions are the same finite number
SameStamp(a, b) == a.den # 0 /\ b.den # 0 /\ a.num * b.den = b.num * a.den

\* C29: for the same frame counter and sample rate (a rate reset() has set) the
\* in-place read leaves in the caller's Stamped Frame the time stamp the
\* value-returning read returns, and advances the frame counter as it does (by one).
C29_Original ==
    (client.last.op = "read_into" /\ client.last.raised = "returned" /\ sample_rate # 0) =>
        /\ SameStamp(client.last.stamp, client.last.by_value)
        /\ client.last.advanced = 1

\* C30: the Frame built holds, for each active sensor asked for, a Sample
\* labelled by that sensor whose channel c is the c-th consecutive 4-byte value
\* from the sensor's position in the buffer.
C30_Original ==
    \A i \in 1..Len(decoded.frame) :
        LET sample == decoded.frame[i]
            sensor == decoded.configuration[sample.id]
        IN  /\ sensor.active
            /\ \E j \in 1..Len(decoded.sensors) : decoded.sensors[j] = sample.id
            /\ \A c \in 1..sensor.nChannels :
                   ({Position(decoded.port, sensor) + 1, Position(decoded.port, sensor) + c}
                        \subseteq DOMAIN decoded.buffer) =>
                       sample.data[c] = decoded.buffer[Position(decoded.port, sensor) + c]

\* C31: no processor holds its lock during blocking I/O: the Recorder's lock is
\* not held while it reads from the data client, and the Exporter's lock is not
\* held while it writes the file.
C31_Original ==
    /\ rec.pc = "read" => ~rec.mx
    /\ expo.pc = "save" => ~expo.mutex

\* C32: after kill() on a running Iterative engine at most one further
\* processing step is started before its loop ends.
C32_Original ==
    iter.after <= 1

\* what the Range of the run moves by in one iteration: the step less the overlap
Advance == iter.step - Min(iter.r.overlap, Max(iter.r.width - 1, 0))

\* nothing has been appended to the Sequence since the run began (and a run that
\* does not consume removes nothing)
Static == appended = iter.at

\* C33: a run of the Iterative adapter over a Sequence that does not grow has
\* processed each successive window once and in order, from the initial Range
\* on, and has left no whole window behind the last one it processed.
C33_Original ==
    (iter.pc = "done" /\ ~iter.consuming /\ Static /\ Advance > 0) =>
        /\ \A k \in 1..Len(iter.seen) : iter.seen[k] = (k - 1) * Advance
        /\ iter.seen # <<>>
        /\ iter.seen[Len(iter.seen)] + Advance + iter.r.width > Len(data)

\* C34: once an operation has timed out and the Transport is connected again,
\* an operation whose peer never responds does not run past its own deadline:
\* it ends with the timeout.
C34_Original ==
    (last.lapsed /\ socket = "connected" /\ call.state = "run" /\ call.silent) =>
        call.spent <= call.timeout

\* C35: the outcome of an operation on the Transport is that of its own I/O or
\* of its own deadline, never the completion or the abort of an operation
\* started before it.
C35_Original ==
    last.op # "none" => last.own

\* the time stamps of the frames the Recorder has appended that are no longer in
\* the Sequence
Erased == {k \in 1..appended : \A i \in 1..Len(data) : data[i].key # k}

\* C36: with a Recorder appending and a consuming Iterative Exporter draining
\* the same Sequence, the export holds the frames in the order of their append,
\* none twice, and no frame has left the Sequence without having been exported.
C36_Original ==
    /\ \A i, j \in 1..Len(iter.exported) : i < j => iter.exported[i] < iter.exported[j]
    /\ \A k \in Erased : \E i \in 1..Len(iter.exported) : iter.exported[i] = k

\* C37: a run() or launch() begun after kill() has returned goes through the
\* whole of start / loop / stop: the kill request that stopped an earlier run
\* does not end it.
C37_Original ==
    \A i \in Runs :
        (/\ loop[i].stale
         /\ loop[i].pc = "done"
         /\ \E j \in 1..(i - 1) : loop[j].outcome = "killed") => loop[i].outcome # "killed"


\* what active() of the timed engine answers: _elapsed is not ready yet
TimedActive(i) ==
    (/\ kind = "timed"
     /\ NextRun = i + 1
     /\ ctl.pc # "reset"
     /\ loop[i].pc # "done"
     /\ ~ioctx.expired) => elapsed = "running"

\* C38: on the second and later run(time) or launch(time) of a timed engine
\* active() stays true until the newly armed duration has elapsed.
C38_Original == \A i \in Runs : i >= 2 => TimedActive(i)


\* C39: the Iterative adapter never hands an empty window to the processing
\* step: whenever the loop body of run() begins, the Range holds an element.
C39_Original ==
    [][(iter.pc = "exec" /\ iter'.pc # "exec") => RangeSize(iter.r, Len(data)) > 0]_vars


\* C40: for every active sensor of the list, whatever start index the
\* configuration holds for it, the region its position and channel count select
\* lies inside the buffer.
C40_Original ==
    \A j \in 1..Len(decoded.sensors) :
        LET sensor == decoded.configuration[decoded.sensors[j]]
            pos == Position(decoded.port, sensor)
        IN  sensor.active =>
                \A c \in 1..sensor.nChannels : pos + c \in DOMAIN decoded.buffer

=============================================================================
